---- MODULE Spec2Model ----
(***************************************************************************)
(* Model of the Zigbee <-> MQTT bridge: ZigbeeManager (zigbee_manager.py), *)
(* DeviceConverters (device_converters.py) and the part of MQTTClient      *)
(* (mqtt_client.py) that ZigbeeManager calls.                              *)
(*                                                                         *)
(* Execution model.  Every handler of ZigbeeManager is a coroutine of one  *)
(* asyncio loop, so a handler runs without interruption from one await     *)
(* that suspends to the next.  The only awaits that suspend are the calls  *)
(* into the radio stack (ControllerApplication.new, app.permit,            *)
(* app.shutdown, device.leave).  The synchronous methods run the first     *)
(* three to completion with run_until_complete, so they are one step;      *)
(* remove_device is a coroutine that is suspended in device.leave(), so it *)
(* is two steps and other handlers run in between.                         *)
(***************************************************************************)
EXTENDS Integers, Sequences, FiniteSets, TLC

(***************************************************************************)
(* Bounds                                                                  *)
(***************************************************************************)
\* number of distinct radio devices (EUI64 addresses)
NumDevices == 1
\* last clock reading of time.time() the model explores
MaxTime == 3
\* largest duration handed to permit_join
MaxDuration == 2

(***************************************************************************)
(* Python values.  A value is a tagged record so that strings, numbers and *)
(* None can be compared with one another.                                  *)
(***************************************************************************)
PyNone == [k |-> "none", s |-> "", n |-> 0]
\* marks a key that a dict does not hold
Absent == [k |-> "absent", s |-> "", n |-> 0]

S(str) == [k |-> "str", s |-> str, n |-> 0]

N(num) == [k |-> "num", s |-> "", n |-> num]

\* the values the callers hand to update_device_state: the Entry widget of
\* the UI gives strings
Values == {S("ON"), S("MAYBE"), S("300")}

\* float(value): the strings Python parses, with the number they denote
FloatOfStr ==
    ("300" :> 300) @@ ("254" :> 254) @@ ("255" :> 255) @@ ("0" :> 0)
    @@ ("-1" :> -1)

\* float(value) raises ValueError or TypeError
FloatRaises(value) ==
    \/ value.k = "none"
    \/ value.k = "str" /\ value.s \notin DOMAIN FloatOfStr

float(value) == IF value.k = "num" THEN value.n ELSE FloatOfStr[value.s]

\* str.lower() on the vendor and manufacturer strings of the model
lower(str) ==
    CASE str \in {"TuYa", "TUYA", "tuya"} -> "tuya"
      [] str = "Other" -> "other"
      [] str \in {"Acme", "acme"} -> "acme"
      [] OTHER -> str

(***************************************************************************)
(* Device addresses.  str(device.ieee) is the canonical lower-case form;   *)
(* EUI64.convert accepts any spelling of the same address.                 *)
(***************************************************************************)
AllIds == <<"aa:01", "aa:02", "aa:03">>

Ids == {AllIds[i] : i \in 1..NumDevices}

\* an upper-case spelling of the first address, as a caller may type it
UpperId == "AA:01"

IdStrings == Ids \cup {UpperId}

\* str(EUI64.convert(ieee_address))
EUI64_convert(ieee_address) ==
    IF ieee_address = UpperId THEN AllIds[1] ELSE ieee_address

(***************************************************************************)
(* DeviceConverters                                                        *)
(***************************************************************************)
NoValues == {}

\* the sample definition the program writes on first start
TS0001 ==
    [model_id |-> "TS0001", vendor |-> "TuYa",
     supports |-> <<"on_off", "brightness">>,
     exposes |-> <<
        [type |-> "binary", name |-> "state", cluster |-> "None",
         attribute |-> "None", values |-> {S("ON"), S("OFF")},
         value_min |-> PyNone, value_max |-> PyNone],
        [type |-> "numeric", name |-> "brightness", cluster |-> "None",
         attribute |-> "None", values |-> NoValues,
         value_min |-> N(0), value_max |-> N(254)] >>]

\* a second definition file, with the cluster and attribute keys that
\* _handle_attribute_update reads; two of its properties are fed by the same
\* attribute
ZBT1 ==
    [model_id |-> "ZB-T1", vendor |-> "Acme",
     supports |-> <<"temperature">>,
     exposes |-> <<
        [type |-> "numeric", name |-> "temperature", cluster |-> "msTemp",
         attribute |-> "measured", values |-> NoValues,
         value_min |-> PyNone, value_max |-> N(1000)],
        [type |-> "numeric", name |-> "temperature_raw", cluster |-> "msTemp",
         attribute |-> "measured", values |-> NoValues,
         value_min |-> PyNone, value_max |-> PyNone] >>]

\* a third definition file: the vendor of the first in another spelling, a
\* property of a type validate_state_value does not know and a numeric
\* property bounded below only
TS0002 ==
    [model_id |-> "TS0002", vendor |-> "tuya",
     supports |-> <<"on_off">>,
     exposes |-> <<
        [type |-> "enum", name |-> "state", cluster |-> "None",
         attribute |-> "None", values |-> {S("ON"), S("OFF")},
         value_min |-> PyNone, value_max |-> PyNone],
        [type |-> "numeric", name |-> "brightness", cluster |-> "None",
         attribute |-> "None", values |-> NoValues,
         value_min |-> N(0), value_max |-> PyNone] >>]

\* self.definitions after load_definitions, in insertion order
definitions == <<TS0001, ZBT1, TS0002>>

\* index of "no definition" (None)
NoDef == 0

DefIdx == 1..Len(definitions)

\* every state name a caller may use: the names the definitions expose (a
\* name of one definition is an unknown name for a device of another)
Names == UNION {{definitions[i].exposes[j].name :
                    j \in 1..Len(definitions[i].exposes)} : i \in DefIdx}

\* self.definitions.get(model_id), as an index into definitions
definitions_get(model_id) ==
    IF \E i \in DefIdx : definitions[i].model_id = model_id
    THEN CHOOSE i \in DefIdx : definitions[i].model_id = model_id
    ELSE NoDef

\* identify_device falling back to the last definition of the vendor
identify_device_last(model_id, manufacturer) ==
    IF definitions_get(model_id) # NoDef
    THEN definitions_get(model_id)
    ELSE IF manufacturer # ""
              /\ \E i \in DefIdx :
                    lower(definitions[i].vendor) = lower(manufacturer)
         THEN CHOOSE i \in DefIdx :
                /\ lower(definitions[i].vendor) = lower(manufacturer)
                /\ \A j \in (i + 1)..Len(definitions) :
                      lower(definitions[j].vendor) # lower(manufacturer)
         ELSE NoDef

\* identify_device(model_id, manufacturer); "" is the default None
identify_device(model_id, manufacturer) ==
    IF definitions_get(model_id) # NoDef
    THEN definitions_get(model_id)
    ELSE IF manufacturer # ""
              /\ \E i \in DefIdx :
                    lower(definitions[i].vendor) = lower(manufacturer)
         THEN CHOOSE i \in DefIdx :
                /\ lower(definitions[i].vendor) = lower(manufacturer)
                /\ \A j \in 1..(i - 1) :
                      lower(definitions[j].vendor) # lower(manufacturer)
         ELSE NoDef

\* position in the exposes list of the first property called state_name,
\* 0 for None
get_state_definition(model_id, state_name) ==
    LET d == definitions_get(model_id) IN
    IF d = NoDef THEN 0
    ELSE LET ex == definitions[d].exposes
             hits == {j \in 1..Len(ex) : ex[j].name = state_name} IN
         IF hits = {} THEN 0
         ELSE CHOOSE j \in hits : \A h \in hits : j <= h

\* validate_state_value with exclusive bounds
validate_expose_exclusive(state_def, value) ==
    CASE state_def.type = "binary" -> value \in state_def.values
      [] state_def.type = "numeric" ->
            /\ ~FloatRaises(value)
            /\ \/ state_def.value_min = PyNone
               \/ float(value) > state_def.value_min.n
            /\ \/ state_def.value_max = PyNone
               \/ float(value) < state_def.value_max.n
      [] OTHER -> FALSE

\* the type constraint of one exposed property
validate_expose(state_def, value) ==
    CASE state_def.type = "binary" -> value \in state_def.values
      [] state_def.type = "numeric" ->
            /\ ~FloatRaises(value)
            /\ \/ state_def.value_min = PyNone
               \/ float(value) >= state_def.value_min.n
            /\ \/ state_def.value_max = PyNone
               \/ float(value) <= state_def.value_max.n
      [] OTHER -> FALSE

validate_state_value(model_id, state_name, value) ==
    LET j == get_state_definition(model_id, state_name) IN
    IF j = 0 THEN FALSE
    ELSE validate_expose(definitions[definitions_get(model_id)].exposes[j],
                         value)

(***************************************************************************)
(* State                                                                   *)
(***************************************************************************)
VARIABLES
    now,                    \* the reading of time.time()
    app,                    \* self.app: "None" or "running"
    app_devices,            \* self.app.devices: the radio stack's own table
    connected,              \* ZigbeeManager.connected
    permit_join_active,
    permit_join_end_time,
    timers,                 \* due times of the pending loop.call_later handles
    devices,                \* self.devices: id -> device record
    device_states,          \* self.device_states: id -> reference to a dict
    heap,                   \* the dict objects: reference -> (name -> value)
    states,                 \* the reference a caller got from get_device_state
    remove_task,            \* the remove_device coroutine of each id: "idle"
                            \* or "leaving" (suspended in device.leave())
    mqtt_connected,         \* MQTTClient.connected
    subscribed,             \* a subscription to the inbound topic tree was
                            \* requested in the present broker session
    mqtt_loop,              \* the client's network loop thread is running
    net,                    \* network calls of the bus client in the last step
    ret,                    \* the operation of the last step and its result
    published,              \* messages handed to the broker in the last step
    radio,                  \* radio-stack commands issued in the last step
    lock,                   \* self.lock: "" when free, else the id whose
                            \* coroutine holds it
    unguarded,              \* the accesses to self.devices and
                            \* self.device_states the last step made outside
                            \* a with self.lock block
    ui_call                 \* the coroutine whose result the UI thread is
                            \* blocked on, "idle" when it is not blocked

vars == <<now, app, app_devices, connected, permit_join_active,
          permit_join_end_time, timers, devices, device_states, heap, states,
          remove_task, mqtt_connected, subscribed, mqtt_loop, net, ret,
          published, radio, lock, unguarded, ui_call>>

bus_vars == <<mqtt_connected, subscribed, mqtt_loop>>

permit_vars == <<permit_join_active, permit_join_end_time, timers>>

device_vars == <<devices, device_states, heap, states, remove_task>>

\* references to dict objects; 0 is "no reference"
Addr == 1..(NumDevices + 1)

\* a dict with no key
EmptyDict == [name \in Names |-> Absent]

\* the keys of a dict
Keys(dict) == {name \in Names : dict[name] # Absent}

\* the references reachable from the maps ds and the caller's reference held
Live(ds, held) == {ds[d] : d \in DOMAIN ds} \cup ({held} \ {0})

\* a new dict object gets a reference that is not in use: the preferred one
\* when it is free, else the first free one
Alloc(preferred, used) ==
    IF preferred \notin used THEN preferred
    ELSE CHOOSE a \in Addr : a \notin used /\ \A b \in Addr \ used : a <= b

\* the reference preferred for the dict of a device
Slot(device_id) ==
    IF \E i \in 1..NumDevices : AllIds[i] = device_id
    THEN CHOOSE i \in 1..NumDevices : AllIds[i] = device_id
    ELSE NumDevices + 1

\* dict objects nobody refers to are reclaimed
Collect(h, ds, held) ==
    [a \in Addr |-> IF a \in Live(ds, held) THEN h[a] ELSE EmptyDict]

\* dict[key] = value and del dict[key] on a map from ids
Put(map, key, value) ==
    [x \in DOMAIN map \cup {key} |-> IF x = key THEN value ELSE map[x]]

Del(map, key) == [x \in DOMAIN map \ {key} |-> map[x]]

\* the record of a step: the operation, what it returned and the fault it
\* met; args holds the arguments of a call of DeviceConverters
Return(op, result, fault) ==
    [op |-> op, result |-> result, fault |-> fault, args |-> <<>>]

B(bool) == [k |-> "bool", s |-> "", n |-> IF bool THEN 1 ELSE 0]

\* a JSON message; a field a message does not have keeps its default
Message(topic, ieee_address) ==
    [topic |-> topic, ieee_address |-> ieee_address, model |-> "",
     manufacturer |-> "", supported_features |-> <<>>, key |-> "",
     value |-> Absent, time |-> -1, cluster |-> "", attribute |-> ""]

RadioCall(cmd, ieee, arg) == [cmd |-> cmd, ieee |-> ieee, arg |-> arg]

\* MQTTClient.publish for a list of messages: nothing is sent while the
\* client is not connected
publish(messages) == IF mqtt_connected THEN messages ELSE <<>>

\* the network writes that send a list of messages
Sent(messages) == [i \in 1..Len(messages) |-> "publish"]

\* a step with a with self.lock block: it waits for the lock and has
\* released it when the step ends; accesses are the accesses to the two maps
\* it makes outside the block
WithLock(accesses) ==
    /\ lock = ""
    /\ lock' = ""
    /\ unguarded' = accesses

\* a step that does not take the lock
NoLock(accesses) ==
    /\ UNCHANGED lock
    /\ unguarded' = accesses

Init ==
    /\ ui_call = "idle"
    /\ lock = ""
    /\ unguarded = {}
    /\ now = 0
    /\ app = "None"
    /\ app_devices = {}
    /\ connected = FALSE
    /\ permit_join_active = FALSE
    /\ permit_join_end_time = 0
    /\ timers = {}
    /\ devices = [d \in {} |-> 0]
    /\ device_states = [d \in {} |-> 0]
    /\ heap = [a \in Addr |-> EmptyDict]
    /\ states = 0
    /\ remove_task = [d \in Ids |-> "idle"]
    /\ mqtt_connected = FALSE
    /\ subscribed = FALSE
    /\ mqtt_loop = FALSE
    /\ net = <<>>
    /\ ret = Return("init", "None", "")
    /\ published = <<>>
    /\ radio = <<>>

(***************************************************************************)
(* MQTTClient, as far as the controller depends on it                      *)
(***************************************************************************)
\* the broker hosts a configuration may name: none, one the resolver knows
\* and one it does not know
Brokers == {"", "test.local", "nohost.invalid"}

\* the ports a configuration may name: the default of connect(), the
\* default of the configuration file, one above the range
Ports == {443, 1883, 65536}

\* socket.gethostbyname(broker) returns
resolves(broker) == broker = "test.local"

\* what follows client.connect(): it raises; or the loop is started and the
\* broker stays silent, or answers with result code 0..5
Handshakes == {"refused", "silent", "rc0", "rc1", "rc2", "rc3", "rc4", "rc5"}

\* the reasons on_connect logs for the result codes
error_messages ==
    ("rc1" :> "Incorrect protocol version")
    @@ ("rc2" :> "Invalid client identifier")
    @@ ("rc3" :> "Server unavailable")
    @@ ("rc4" :> "Bad username or password")
    @@ ("rc5" :> "Not authorized")

\* the ValueError of the validation of connect(), "" when it passes
config_error(broker, port) ==
    IF broker = "" THEN "ValueError: MQTT broker address not configured"
    ELSE IF ~(1024 <= port /\ port <= 65535)
         THEN "ValueError: Invalid MQTT port"
         ELSE ""

\* what connect() raises when the connected flag is not true in time
timeout_error == "TimeoutError: Connection timeout after 5 seconds"

\* the network calls of connect() when it gives up waiting
give_up == <<"loop_stop">>

\* an on_connect that does not subscribe
on_connect_subscribes_never(rc) == FALSE

\* on_connect subscribes to the topic tree when the broker accepted
on_connect_subscribes(rc) == rc = "rc0"

\* connect() with the configured broker and port: what it returns or raises,
\* the cause, the flags it leaves and the network calls it makes
connect_outcome(broker, port, handshake) ==
    LET closing == IF mqtt_connected THEN <<"loop_stop", "disconnect">>
                   ELSE <<>>
        loop == IF mqtt_connected THEN FALSE ELSE mqtt_loop
    IN
    IF config_error(broker, port) # ""
    THEN [result |-> config_error(broker, port), fault |-> "config",
          connected |-> FALSE, loop |-> loop, subscribed |-> FALSE,
          net |-> closing]
    ELSE IF ~resolves(broker)
    THEN [result |-> "ValueError: Failed to resolve broker hostname",
          fault |-> "resolve", connected |-> FALSE, loop |-> loop,
          subscribed |-> FALSE, net |-> closing \o <<"gethostbyname">>]
    ELSE IF handshake = "refused"
    THEN [result |-> "OSError", fault |-> "refused", connected |-> FALSE,
          loop |-> loop, subscribed |-> FALSE,
          net |-> closing \o <<"gethostbyname", "connect">>]
    ELSE IF handshake = "rc0"
    THEN [result |-> "True", fault |-> "", connected |-> TRUE, loop |-> TRUE,
          subscribed |-> on_connect_subscribes(handshake),
          net |-> closing \o <<"gethostbyname", "connect", "loop_start">>
                  \o (IF on_connect_subscribes(handshake)
                      THEN <<"subscribe">> ELSE <<>>)]
    ELSE [result |-> timeout_error, fault |-> handshake, connected |-> FALSE,
          loop |-> give_up = <<>>, subscribed |-> FALSE,
          net |-> closing \o <<"gethostbyname", "connect", "loop_start">>
                  \o give_up]

\* MQTTClient.connect()
mqtt_connect(broker, port, handshake) ==
    LET outcome == connect_outcome(broker, port, handshake) IN
    /\ mqtt_connected' = outcome.connected
    /\ subscribed' = outcome.subscribed
    /\ mqtt_loop' = outcome.loop
    /\ net' = outcome.net
    /\ ret' = Return("mqtt_connect", outcome.result, outcome.fault)
    /\ published' = <<>>
    /\ radio' = <<>>
    /\ NoLock({})
    /\ UNCHANGED <<ui_call, now, app, app_devices, connected, permit_vars,
                   device_vars>>

\* a disconnect() that closes the session before it stops the loop
disconnect_calls_reversed == <<"disconnect", "loop_stop">>

\* the network calls of disconnect(), in order
disconnect_calls == <<"loop_stop", "disconnect">>

\* MQTTClient.disconnect(); loop_stop() and disconnect() of the client
\* library return a code and do not raise
mqtt_disconnect ==
    /\ mqtt_connected' = FALSE
    /\ subscribed' = FALSE
    /\ mqtt_loop' = FALSE
    /\ net' = disconnect_calls
    /\ ret' = Return("mqtt_disconnect", "None", "")
    /\ published' = <<>>
    /\ radio' = <<>>
    /\ NoLock({})
    /\ UNCHANGED <<ui_call, now, app, app_devices, connected, permit_vars,
                   device_vars>>

\* on_connect(rc), delivered by the loop thread when the client library has
\* reconnected after an unexpected disconnection
on_connect(rc) ==
    /\ mqtt_loop
    /\ ~mqtt_connected
    /\ mqtt_connected' = (rc = "rc0")
    /\ subscribed' = on_connect_subscribes(rc)
    /\ net' = IF on_connect_subscribes(rc) THEN <<"subscribe">> ELSE <<>>
    /\ ret' = Return("on_connect", "None", IF rc = "rc0" THEN "" ELSE rc)
    /\ published' = <<>>
    /\ radio' = <<>>
    /\ NoLock({})
    /\ UNCHANGED <<ui_call, now, app, app_devices, connected, permit_vars,
                   device_vars, mqtt_loop>>

\* on_disconnect, delivered by the loop thread when the session is lost
on_disconnect ==
    /\ mqtt_loop
    /\ mqtt_connected
    /\ mqtt_connected' = FALSE
    /\ subscribed' = FALSE
    /\ net' = <<>>
    /\ ret' = Return("on_disconnect", "None", "")
    /\ published' = <<>>
    /\ radio' = <<>>
    /\ NoLock({})
    /\ UNCHANGED <<ui_call, now, app, app_devices, connected, permit_vars,
                   device_vars, mqtt_loop>>

\* a publish that sends whatever the flag says
publish_refused_never == FALSE

\* the check publish() makes before anything else
publish_refused == ~mqtt_connected

\* MQTTClient.publish(topic, message); send_ok is whether the client
\* library reports MQTT_ERR_SUCCESS
mqtt_publish(send_ok) ==
    /\ IF publish_refused
       THEN /\ ret' = Return("mqtt_publish", "False", "")
            /\ net' = <<>>
            /\ published' = <<>>
       ELSE /\ ret' = Return("mqtt_publish",
                             IF send_ok THEN "True" ELSE "False",
                             IF send_ok THEN "" ELSE "send_error")
            /\ net' = <<"publish">>
            /\ published' = IF send_ok
                            THEN <<Message("zigbee2mqtt/bridge/state", "")>>
                            ELSE <<>>
    /\ radio' = <<>>
    /\ NoLock({})
    /\ UNCHANGED <<ui_call, now, app, app_devices, connected, permit_vars,
                   device_vars, bus_vars>>

(***************************************************************************)
(* DeviceConverters, called on its own                                     *)
(***************************************************************************)
\* the model ids of the calls: the loaded ones and the "unknown" that
\* _handle_device_joined passes for a device without a model
ModelIds == {"TS0001", "ZB-T1", "TS0002", "unknown"}

\* the manufacturers of the calls: none, two spellings of a loaded vendor,
\* a vendor no definition has
Manufacturers == {"", "TuYa", "TUYA", "Other"}

\* the state names of the calls: the exposed names and one nobody exposes
StateNames == Names \cup {"power"}

\* the values of the calls: literals of a binary property and a foreign one,
\* numbers on, inside and outside the bounds, as strings and as numbers, and
\* None
ConverterValues ==
    {S("ON"), S("OFF"), S("MAYBE"), S("0"), S("-1"), S("254"), S("255"),
     S("300"), N(0), N(-1), N(254), N(255), PyNone}

\* the model id of a definition, "None" for None
def_name(definition) ==
    IF definition = NoDef THEN "None" ELSE definitions[definition].model_id

\* a call of identify_device
identify_call(model_id, manufacturer) ==
    /\ ret' = [Return("identify_device",
                      def_name(identify_device(model_id, manufacturer)), "")
                 EXCEPT !.args = <<model_id, manufacturer>>]
    /\ published' = <<>>
    /\ radio' = <<>>
    /\ net' = <<>>
    /\ NoLock({})
    /\ UNCHANGED <<ui_call, now, app, app_devices, connected, permit_vars,
                   device_vars, bus_vars>>

\* a call of validate_state_value
validate_call(model_id, state_name, value) ==
    /\ ret' = [Return("validate_state_value",
                      IF validate_state_value(model_id, state_name, value)
                      THEN "True" ELSE "False", "")
                 EXCEPT !.args = <<model_id, state_name, value>>]
    /\ published' = <<>>
    /\ radio' = <<>>
    /\ net' = <<>>
    /\ NoLock({})
    /\ UNCHANGED <<ui_call, now, app, app_devices, connected, permit_vars,
                   device_vars, bus_vars>>

(***************************************************************************)
(* ZigbeeManager: lifecycle                                                *)
(***************************************************************************)
\* the faults start() can meet: none, an exception inside _init_controller,
\* an exception of run_until_complete itself
StartFaults == {"", "init_error", "loop_error"}

\* start(); database is the device table the radio stack restores, and
\* acknowledged the outcome of the MQTT connect it attempts
start(fault, database, acknowledged) ==
    /\ \/ /\ fault = ""
          /\ app' = "running"
          /\ app_devices' = database
          /\ connected' = TRUE
          /\ IF mqtt_connected
             THEN /\ net' = <<>>
                  /\ UNCHANGED bus_vars
             ELSE LET outcome ==
                         connect_outcome("test.local", 1883,
                                         IF acknowledged THEN "rc0"
                                         ELSE "silent") IN
                  /\ mqtt_connected' = outcome.connected
                  /\ subscribed' = outcome.subscribed
                  /\ mqtt_loop' = outcome.loop
                  /\ net' = outcome.net
          /\ radio' = <<RadioCall("new", "", 0)>>
          /\ ret' = Return("start", "True", fault)
       \/ /\ fault = "init_error"
          /\ radio' = <<RadioCall("new", "", 0)>>
          /\ ret' = Return("start", "True", fault)
          /\ net' = <<>>
          /\ UNCHANGED <<app, app_devices, connected, bus_vars>>
       \/ /\ fault = "loop_error"
          /\ connected' = FALSE
          /\ radio' = <<>>
          /\ ret' = Return("start", "False", fault)
          /\ net' = <<>>
          /\ UNCHANGED <<app, app_devices, bus_vars>>
    /\ published' = <<>>
    /\ NoLock({})
    /\ UNCHANGED <<ui_call, now, permit_vars, device_vars>>

\* a _stop_controller that shuts the radio stack down unconditionally
has_app_always == TRUE

\* if self.app: in _stop_controller
has_app == app # "None"

\* stop(); shutdown_ok is whether app.shutdown() returns normally
stop(shutdown_ok) ==
    /\ \/ /\ ~has_app
          /\ connected' = FALSE
          /\ radio' = <<>>
          /\ ret' = Return("stop", "True", "")
          /\ UNCHANGED <<app, app_devices>>
       \/ /\ has_app
          /\ shutdown_ok
          /\ app' = "None"
          /\ app_devices' = {}
          /\ connected' = FALSE
          /\ radio' = <<RadioCall("shutdown", "", 0)>>
          /\ ret' = Return("stop", "True", "")
       \/ /\ has_app
          /\ ~shutdown_ok
          /\ radio' = <<RadioCall("shutdown", "", 0)>>
          /\ ret' = Return("stop", "False", "radio_error")
          /\ UNCHANGED <<app, app_devices, connected>>
    /\ published' = <<>>
    /\ NoLock({})
    /\ net' = Sent(published')
    /\ UNCHANGED <<ui_call, now, permit_vars, device_vars, bus_vars>>

(***************************************************************************)
(* ZigbeeManager: the permit-join window                                   *)
(***************************************************************************)
Durations == 0..MaxDuration

\* a permit_join that also goes ahead whenever the radio stack is running
permit_join_allowed_with_app == connected \/ app = "running"

\* the check permit_join makes before anything else
permit_join_allowed == connected

\* a _permit_join that reports success whatever the radio stack did
permit_failed_ignored(permit_ok) == FALSE

\* _permit_join(duration) returns False: app.permit raised, or there is no
\* controller application to call
permit_failed(permit_ok) == app = "None" \/ ~permit_ok

\* permit_join(duration); permit_ok is whether app.permit returns normally
permit_join(duration, permit_ok) ==
    /\ \/ /\ ~permit_join_allowed
          /\ radio' = <<>>
          /\ published' = <<>>
          /\ ret' = Return("permit_join", "False", "")
          /\ UNCHANGED permit_vars
       \/ /\ permit_join_allowed
          /\ permit_failed(permit_ok)
          /\ radio' = IF app = "None" THEN <<>>
                      ELSE <<RadioCall("permit", "", duration)>>
          /\ published' = <<>>
          /\ ret' = Return("permit_join", "False", "radio_error")
          /\ UNCHANGED permit_vars
       \/ /\ permit_join_allowed
          /\ ~permit_failed(permit_ok)
          /\ radio' = <<RadioCall("permit", "", duration)>>
          /\ permit_join_active' = TRUE
          /\ permit_join_end_time' = now + duration
          /\ published' = publish(<<
                [Message("zigbee2mqtt/bridge/request/permit_join", "")
                   EXCEPT !.value = B(TRUE), !.time = duration]>>)
          /\ timers' = timers \cup {now + duration}
          /\ ret' = Return("permit_join", "True", "")
    /\ NoLock({})
    /\ net' = Sent(published')
    /\ UNCHANGED <<ui_call, now, app, app_devices, connected, device_vars,
                   bus_vars>>

\* _disable_permit_join, run by the loop as the call_later callback due at
\* time due.  The loop is running the callback, so run_until_complete raises
\* RuntimeError before app.permit(0) is scheduled and before the publish.
disable_permit_join(due) ==
    /\ due \in timers
    /\ due <= now
    /\ timers' = timers \ {due}
    /\ permit_join_active' = FALSE
    /\ radio' = <<>>
    /\ published' = <<>>
    /\ ret' = Return("_disable_permit_join", "None",
                     IF permit_join_active THEN "loop_error" ELSE "")
    /\ NoLock({})
    /\ net' = Sent(published')
    /\ UNCHANGED <<ui_call, now, app, app_devices, connected, permit_join_end_time,
                   device_vars, bus_vars>>

\* is_permit_join_active without the expiry check
permit_join_query_flag == permit_join_active

\* what is_permit_join_active() returns
permit_join_query == permit_join_active /\ ~(now > permit_join_end_time)

is_permit_join_active ==
    /\ permit_join_active' = permit_join_query
    /\ ret' = Return("is_permit_join_active",
                     IF permit_join_query THEN "True" ELSE "False", "")
    /\ radio' = <<>>
    /\ published' = <<>>
    /\ NoLock({})
    /\ net' = Sent(published')
    /\ UNCHANGED <<ui_call, now, app, app_devices, connected, permit_join_end_time,
                   timers, device_vars, bus_vars>>

\* time passes
Tick ==
    /\ now < MaxTime
    /\ now' = now + 1
    /\ ret' = Return("tick", "None", "")
    /\ published' = <<>>
    /\ radio' = <<>>
    /\ NoLock({})
    /\ net' = Sent(published')
    /\ UNCHANGED <<ui_call, app, app_devices, connected, permit_vars,
                   device_vars, bus_vars>>

(***************************************************************************)
(* ZigbeeManager: devices and their state                                  *)
(***************************************************************************)
\* what the radio stack reports of a joining device: <<model,
\* manufacturer>>, "" for None
Joiners == {<<"TS0001", "TuYa">>, <<"ZB-T1", "">>, <<"", "TUYA">>,
            <<"", "">>}

\* the attribute reports: <<cluster, attribute, value>>
Reports == {<<"msTemp", "measured", S("300")>>,
            <<"msTemp", "measured", S("MAYBE")>>,
            <<"genOnOff", "onOff", S("ON")>>}

\* the <<state_name, value>> pairs handed to update_device_state: an allowed
\* and a foreign binary value, a number above and one within the bounds, a
\* string that is no number
Updates == {<<"state", S("ON")>>, <<"state", S("MAYBE")>>,
            <<"brightness", S("300")>>, <<"temperature", S("300")>>,
            <<"temperature", S("MAYBE")>>}

\* a join that leaves the state dict empty
initial_state_empty(definition) == EmptyDict

\* the dict _handle_device_joined builds: every exposed name mapped to None
initial_state(definition) ==
    IF definition = NoDef THEN EmptyDict
    ELSE LET ex == definitions[definition].exposes IN
         [name \in Names |->
            IF \E j \in 1..Len(ex) : ex[j].name = name
            THEN PyNone ELSE Absent]

\* _handle_device_joined(device)
handle_device_joined(device_id, model, manufacturer) ==
    LET model_id == IF model = "" THEN "unknown" ELSE model
        manuf == IF manufacturer = "" THEN "unknown" ELSE manufacturer
        definition == identify_device(model_id, manuf)
        a == Alloc(Slot(device_id),
                   Live(Del(device_states, device_id), states))
    IN
    /\ app = "running"
    /\ app_devices' = app_devices \cup {device_id}
    /\ devices' = Put(devices, device_id,
                      [model |-> model_id, manufacturer |-> manuf,
                       definition |-> definition, status |-> "Joining",
                       joined_at |-> now])
    /\ device_states' = Put(device_states, device_id, a)
    /\ heap' = Collect([heap EXCEPT ![a] = initial_state(definition)],
                       device_states', states)
    /\ published' = publish(<<
          [Message("zigbee2mqtt/bridge/event/device_joined", device_id)
             EXCEPT !.model = model_id, !.manufacturer = manuf,
                    !.supported_features =
                        IF definition = NoDef THEN <<>>
                        ELSE definitions[definition].supports]>>)
    /\ ret' = Return("device_joined", "None", "")
    /\ radio' = <<>>
    /\ WithLock({})
    /\ net' = Sent(published')
    /\ UNCHANGED <<ui_call, now, app, connected, permit_vars, states, remove_task,
                   bus_vars>>

\* update_device_state without the validation
update_accepts_unvalidated(device_id, state_name, value) ==
    device_id \in DOMAIN devices

\* update_device_state validating an unknown device against a default model
update_accepts_default_model(device_id, state_name, value) ==
    validate_state_value(IF device_id \in DOMAIN devices
                         THEN devices[device_id].model ELSE "TS0001",
                         state_name, value)

\* update_device_state succeeds: the device is known and the value is valid
\* for the definition of the device's model id
update_accepts(device_id, state_name, value) ==
    /\ device_id \in DOMAIN devices
    /\ validate_state_value(devices[device_id].model, state_name, value)

\* self.device_states after the write of update_device_state
update_states(device_id) ==
    IF device_id \in DOMAIN device_states THEN device_states
    ELSE Put(device_states, device_id,
             Alloc(Slot(device_id), Live(device_states, states)))

\* update_device_state that does not store the value
update_heap_lost(device_id, state_name, value) == heap

\* the dict objects after the write of update_device_state
update_heap(device_id, state_name, value) ==
    [heap EXCEPT ![update_states(device_id)[device_id]][state_name] = value]

state_message(device_id, state_name, value) ==
    [Message("zigbee2mqtt/<id>/state", device_id)
       EXCEPT !.key = state_name, !.value = value]

\* an update_device_state that returns what the publish returned
update_returns_publish(sent) == IF sent THEN "True" ELSE "False"

\* what update_device_state returns after the write: True, whatever
\* self.mqtt_client.publish returned
update_returns(sent) == "True"

\* what update_device_state(device_id, state_name, value) returns, stores
\* and publishes: the state message, or nothing when the client library
\* does not send it (MQTTClient.publish returns False)
update_effect(device_id, state_name, value) ==
    IF update_accepts(device_id, state_name, value)
    THEN /\ published' \in {publish(<<state_message(device_id, state_name,
                                                     value)>>), <<>>}
         /\ ret' = Return("update_device_state",
                          update_returns(published' # <<>>), "")
         /\ device_states' = update_states(device_id)
         /\ heap' = update_heap(device_id, state_name, value)
         /\ WithLock({"self.devices.get"})
    ELSE /\ ret' = Return("update_device_state", "False", "")
         /\ published' = <<>>
         /\ UNCHANGED <<device_states, heap>>
         /\ NoLock({"self.devices.get"})

\* update_device_state(device_id, state_name, value)
update_device_state(device_id, state_name, value) ==
    /\ update_effect(device_id, state_name, value)
    /\ radio' = <<>>
    /\ net' = IF ret'.result = "False" \/ publish_refused THEN <<>>
              ELSE <<"publish">>
    /\ UNCHANGED <<ui_call, now, app, app_devices, connected, permit_vars, devices,
                   states, remove_task, bus_vars>>

\* what get_device_state returns for a known device: the stored dict itself
get_result(device_id) == device_states[device_id]

\* the mapping a get_device_state(device_id) made now would show, and the
\* one it would show after the step
get_mapping(device_id) ==
    IF device_id \in DOMAIN device_states
    THEN heap[get_result(device_id)] ELSE EmptyDict

get_mapping_next(device_id) ==
    IF device_id \in DOMAIN device_states'
    THEN heap'[device_states'[device_id]] ELSE EmptyDict

\* get_device_state(device_id), called by on_device_selected, which keeps
\* the result in its local variable
get_device_state(device_id) ==
    /\ states' = IF device_id \in DOMAIN device_states
                 THEN get_result(device_id)
                 ELSE Alloc(NumDevices + 1, Live(device_states, 0))
    /\ heap' = Collect(heap, device_states, states')
    /\ ret' = Return("get_device_state", "dict", "")
    /\ published' = <<>>
    /\ radio' = <<>>
    /\ WithLock({})
    /\ net' = Sent(published')
    /\ UNCHANGED <<ui_call, now, app, app_devices, connected, permit_vars, devices,
                   device_states, remove_task, bus_vars>>

\* DeviceFrame.update_device_state up to the dialog: the UI thread looks
\* the selected device up in the controller's map
ui_update_device_state(device_id) ==
    /\ ret' = Return("ui_update_device_state",
                     IF /\ device_id \in DOMAIN devices
                        /\ devices[device_id].definition # NoDef
                     THEN "dialog" ELSE "showerror", "")
    /\ published' = <<>>
    /\ radio' = <<>>
    /\ NoLock({"zigbee_manager.devices.get"})
    /\ net' = Sent(published')
    /\ UNCHANGED <<ui_call, now, app, app_devices, connected, permit_vars, device_vars,
                   bus_vars>>

\* the coroutines the UI hands to the controller's loop
UiCalls == {"get_device_state", "update_device_state", "remove_device"}

\* asyncio.run_coroutine_threadsafe(coroutine, loop).result() in the UI
\* thread: the coroutine is queued on the loop and the thread blocks on the
\* future, with no timeout.  The loop runs only inside the run_until_complete
\* of start, stop and permit_join, which the same thread calls, so nothing
\* runs the queued coroutine while the thread is blocked.
ui_dispatch(coroutine) ==
    /\ ui_call = "idle"
    /\ ui_call' = coroutine
    /\ ret' = Return("ui_dispatch", "blocked", "")
    /\ published' = <<>>
    /\ radio' = <<>>
    /\ NoLock({})
    /\ net' = Sent(published')
    /\ UNCHANGED <<now, app, app_devices, connected, permit_vars, device_vars,
                   bus_vars>>

\* a leave that keeps the state entry
leave_states_kept(device_id) == device_states

\* self.device_states after the del of _handle_device_leave
leave_states(device_id) == Del(device_states, device_id)

\* _handle_device_leave(device); forgotten is whether the radio stack also
\* drops the device from its own table when it reports the leave
handle_device_leave(device_id, forgotten) ==
    /\ app = "running"
    /\ app_devices' = IF forgotten THEN app_devices \ {device_id}
                      ELSE app_devices
    /\ IF device_id \in DOMAIN devices
       THEN /\ devices' = Del(devices, device_id)
            /\ device_states' = leave_states(device_id)
            /\ heap' = Collect(heap, device_states', states)
            /\ published' = publish(<<
                  Message("zigbee2mqtt/bridge/event/device_leave",
                          device_id)>>)
       ELSE /\ published' = <<>>
            /\ UNCHANGED <<devices, device_states, heap>>
    /\ ret' = Return("device_leave", "None", "")
    /\ radio' = <<>>
    /\ WithLock({})
    /\ net' = Sent(published')
    /\ UNCHANGED <<ui_call, now, app, connected, permit_vars, states, remove_task,
                   bus_vars>>

\* an announce that leaves the status as it is
announced_unchanged(device_id) == devices

\* self.devices after the announce of a known device
announced(device_id) == [devices EXCEPT ![device_id].status = "Online"]

\* _handle_device_relays("device_announce", device, message)
handle_device_announce(device_id) ==
    /\ app = "running"
    /\ IF device_id \in DOMAIN devices
       THEN /\ devices' = announced(device_id)
            /\ published' = publish(<<
                  [Message("zigbee2mqtt/bridge/event/device_announce",
                           device_id)
                     EXCEPT !.key = "status", !.value = S("online")]>>)
       ELSE /\ published' = <<>>
            /\ UNCHANGED devices
    /\ ret' = Return("device_announce", "None", "")
    /\ radio' = <<>>
    /\ WithLock({})
    /\ net' = Sent(published')
    /\ UNCHANGED <<ui_call, now, app, app_devices, connected, permit_vars,
                   device_states, heap, states, remove_task, bus_vars>>

\* _handle_device_relays("attribute_updated", device, message)
handle_attribute_updated(device_id, attribute, value) ==
    /\ app = "running"
    /\ published' = publish(<<
          [Message("zigbee2mqtt/<id>", device_id)
             EXCEPT !.attribute = attribute, !.value = value]>>)
    /\ ret' = Return("attribute_updated", "None", "")
    /\ radio' = <<>>
    /\ NoLock({})
    /\ net' = Sent(published')
    /\ UNCHANGED <<ui_call, now, app, app_devices, connected, permit_vars, device_vars,
                   bus_vars>>

\* a scan that keeps the last match
match_expose_last(definition, cluster, attribute) ==
    IF definition = NoDef THEN 0
    ELSE LET ex == definitions[definition].exposes
             hits == {j \in 1..Len(ex) : /\ ex[j].cluster = cluster
                                         /\ ex[j].attribute = attribute} IN
         IF hits = {} THEN 0
         ELSE CHOOSE j \in hits : \A h \in hits : j >= h

\* a scan that takes the first property whatever the report
match_expose_any(definition, cluster, attribute) ==
    IF definition = NoDef THEN 0 ELSE 1

\* position of the first exposed property of definition whose cluster and
\* attribute keys equal the reported pair, 0 when there is none
match_expose(definition, cluster, attribute) ==
    IF definition = NoDef THEN 0
    ELSE LET ex == definitions[definition].exposes
             hits == {j \in 1..Len(ex) : /\ ex[j].cluster = cluster
                                         /\ ex[j].attribute = attribute} IN
         IF hits = {} THEN 0
         ELSE CHOOSE j \in hits : \A h \in hits : j <= h

\* _handle_attribute_update(device, cluster, attribute, value)
handle_attribute_update(device_id, cluster, attribute, value) ==
    LET known == device_id \in DOMAIN devices
        definition == IF known THEN devices[device_id].definition ELSE NoDef
        j == match_expose(definition, cluster, attribute)
        name == definitions[definition].exposes[j].name
        attribute_message ==
            [Message("zigbee2mqtt/<id>/attribute", device_id)
               EXCEPT !.model = devices[device_id].model,
                      !.manufacturer = devices[device_id].manufacturer,
                      !.cluster = cluster, !.attribute = attribute,
                      !.value = value]
    IN
    /\ app = "running"
    /\ IF j = 0
       THEN /\ published' = <<>>
            /\ UNCHANGED <<device_states, heap>>
            /\ NoLock({"self.devices.get"})
       ELSE IF update_accepts(device_id, name, value)
       THEN /\ device_states' = update_states(device_id)
            /\ heap' = update_heap(device_id, name, value)
            /\ published' = publish(<<state_message(device_id, name, value),
                                      attribute_message>>)
            /\ WithLock({"self.devices.get"})
       ELSE /\ published' = publish(<<attribute_message>>)
            /\ UNCHANGED <<device_states, heap>>
            /\ NoLock({"self.devices.get"})
    /\ ret' = Return("attribute_update", "None", "")
    /\ radio' = <<>>
    /\ net' = Sent(published')
    /\ UNCHANGED <<ui_call, now, app, app_devices, connected, permit_vars, devices,
                   states, remove_task, bus_vars>>

\* a remove_device that takes the lock before it calls device.leave()
suspended_lock_held(ieee) == ieee

\* the holder of the lock while remove_device is suspended in
\* device.leave(): the with-block starts after the await
suspended_lock(ieee) == ""

\* remove_device(ieee_address) up to its first suspension: it returns False
\* at once, or it is suspended in device.leave()
remove_device(ieee_address) ==
    LET ieee == EUI64_convert(ieee_address) IN
    /\ remove_task[ieee] = "idle"
    /\ IF app = "running" /\ ieee \in app_devices
       THEN /\ remove_task' = [remove_task EXCEPT ![ieee] = "leaving"]
            /\ radio' = <<RadioCall("leave", ieee, 0)>>
            /\ ret' = Return("remove_device", "pending", "")
            /\ lock \in {"", suspended_lock(ieee)}
            /\ lock' = suspended_lock(ieee)
       ELSE /\ radio' = <<>>
            /\ ret' = Return("remove_device", "False", "")
            /\ UNCHANGED <<remove_task, lock>>
    /\ unguarded' = {}
    /\ published' = <<>>
    /\ net' = Sent(published')
    /\ UNCHANGED <<ui_call, now, app, app_devices, connected, permit_vars, devices,
                   device_states, heap, states, bus_vars>>

\* a removal that keeps the device entry
delete_device_kept(ieee) == devices

\* self.devices and self.device_states after the two dels of one critical
\* section
delete_device(ieee) == Del(devices, ieee)

\* a removal that keeps the state entry
delete_states_kept(ieee) == device_states

delete_states(ieee) == Del(device_states, ieee)

\* a remove_device that goes on to the deletions although device.leave()
\* raised
removal_proceeds_after_failure(ieee, leave_ok) ==
    app = "running" /\ ieee \in app_devices

\* remove_device gets past await device.leave() and del self.app.devices[ieee]
\* without an exception
removal_proceeds(ieee, leave_ok) ==
    leave_ok /\ app = "running" /\ ieee \in app_devices

\* remove_device resumed when device.leave() is over: it returned (leave_ok)
\* or raised.  The del of the radio stack's entry raises when the table or
\* the entry is gone.
remove_device_resume(ieee, leave_ok) ==
    /\ remove_task[ieee] = "leaving"
    /\ remove_task' = [remove_task EXCEPT ![ieee] = "idle"]
    /\ lock \in {"", ieee}
    /\ lock' = ""
    /\ unguarded' = {}
    /\ IF removal_proceeds(ieee, leave_ok)
       THEN /\ app_devices' = app_devices \ {ieee}
            /\ devices' = delete_device(ieee)
            /\ device_states' = delete_states(ieee)
            /\ heap' = Collect(heap, device_states', states)
            /\ published' = publish(<<
                  Message("zigbee2mqtt/bridge/event/device_removed", ieee)>>)
            /\ ret' = Return("remove_device", "True", "")
       ELSE /\ published' = <<>>
            /\ ret' = Return("remove_device", "False",
                             IF leave_ok THEN "" ELSE "radio_error")
            /\ UNCHANGED <<app_devices, devices, device_states, heap>>
    /\ radio' = <<>>
    /\ net' = Sent(published')
    /\ UNCHANGED <<ui_call, now, app, connected, permit_vars, states, bus_vars>>

\* the event handlers the radio stack calls
EventHandlers == {"device_joined", "device_leave", "device_announce",
                  "attribute_updated", "attribute_update"}

\* the handlers whose whole body is inside try / except Exception
Guarded == {"device_joined", "device_announce", "attribute_updated",
            "attribute_update"}

\* the handlers that read device.ieee inside their with self.lock block
LockFirst == {"device_leave", "device_announce"}

\* a handler called with a malformed event: reading device.ieee, the first
\* thing every handler does, raises.  A guarded handler logs the exception
\* and returns; in the others it leaves the handler.
handle_malformed_event(handler) ==
    /\ app = "running"
    /\ ret' = Return(handler, IF handler \in Guarded THEN "None" ELSE "raise",
                     "event_error")
    /\ published' = <<>>
    /\ radio' = <<>>
    /\ IF handler \in LockFirst THEN WithLock({}) ELSE NoLock({})
    /\ net' = Sent(published')
    /\ UNCHANGED <<ui_call, now, app, app_devices, connected, permit_vars, device_vars,
                   bus_vars>>

(***************************************************************************)
(* Specifications                                                          *)
(***************************************************************************)
\* the controller's lifecycle
ControllerStep ==
    \/ \E database \in SUBSET Ids, acknowledged \in BOOLEAN :
          start("", database, acknowledged)
    \/ \E fault \in StartFaults \ {""} : start(fault, {}, FALSE)
    \/ \E shutdown_ok \in BOOLEAN : stop(shutdown_ok)

\* the bus connection, driven by the settings frame and the broker
BusStep ==
    \/ mqtt_connect("test.local", 1883, "rc0")
    \/ mqtt_disconnect

\* the callbacks the client library's loop thread delivers
CallbackStep ==
    \/ \E rc \in Handshakes \ {"refused", "silent"} : on_connect(rc)
    \/ on_disconnect

\* every operation of the bus gateway, with every configuration
GatewayStep ==
    \/ \E broker \in Brokers, port \in Ports, handshake \in Handshakes :
          mqtt_connect(broker, port, handshake)
    \/ mqtt_disconnect
    \/ \E send_ok \in BOOLEAN : mqtt_publish(send_ok)
    \/ CallbackStep

\* the permit-join window
PermitStep ==
    \/ \E duration \in Durations, permit_ok \in BOOLEAN :
          permit_join(duration, permit_ok)
    \/ \E due \in timers : disable_permit_join(due)
    \/ is_permit_join_active
    \/ Tick

\* the radio events and the device operations
DeviceStep ==
    \/ \E d \in Ids, j \in Joiners : handle_device_joined(d, j[1], j[2])
    \/ \E d \in Ids, forgotten \in BOOLEAN : handle_device_leave(d, forgotten)
    \/ \E d \in Ids : handle_device_announce(d)
    \/ \E d \in Ids, r \in Reports :
          handle_attribute_update(d, r[1], r[2], r[3])
    \/ \E d \in IdStrings, u \in Updates : update_device_state(d, u[1], u[2])
    \/ \E d \in IdStrings : remove_device(d)
    \/ \E d \in Ids, leave_ok \in BOOLEAN : remove_device_resume(d, leave_ok)

\* the state query of the UI
QueryStep ==
    \/ \E d \in IdStrings : get_device_state(d)
    \/ \E d \in Ids : ui_update_device_state(d)

\* the raw attribute relay
RelayStep ==
    \E d \in Ids, value \in Values :
       handle_attribute_updated(d, "measured", value)

\* the calls the UI dispatches onto the loop
DispatchStep == \E coroutine \in UiCalls : ui_dispatch(coroutine)

\* the calls of DeviceConverters
ConverterStep ==
    \/ \E model_id \in ModelIds, manufacturer \in Manufacturers :
          identify_call(model_id, manufacturer)
    \/ \E model_id \in ModelIds, state_name \in StateNames,
          value \in ConverterValues :
          validate_call(model_id, state_name, value)

\* the events the handlers cannot read
FaultStep == \E handler \in EventHandlers : handle_malformed_event(handler)

Next ==
    \/ ControllerStep
    \/ BusStep
    \/ PermitStep
    \/ DeviceStep
    \/ QueryStep
    \/ RelayStep
    \/ FaultStep
    \/ DispatchStep
    \/ GatewayStep
    \/ ConverterStep

\* DeviceConverters called with every argument, the definitions loaded
NextConverters == ConverterStep

SpecConverters == Init /\ [][NextConverters]_vars

Spec == Init /\ [][Next]_vars

\* the device operations alone, at one clock reading; the bus is connected
\* by start() or not at all
NextDevices == ControllerStep \/ DeviceStep

SpecDevices == Init /\ [][NextDevices]_vars

\* the device operations with a caller that keeps what get_device_state
\* returned
NextSnapshot == ControllerStep \/ DeviceStep \/ QueryStep

SpecSnapshot == Init /\ [][NextSnapshot]_vars

\* the device operations with malformed events among the events
NextEvents == ControllerStep \/ DeviceStep \/ RelayStep \/ FaultStep

SpecEvents == Init /\ [][NextEvents]_vars

\* the UI thread and the bus client's thread: the UI thread starts and stops
\* the controller and the bus connection and dispatches calls onto the loop;
\* while it waits for a call the clock runs and the bus client's thread goes
\* on delivering on_connect (after a reconnect) and on_disconnect
NextDispatch ==
    \/ ui_call = "idle" /\ (ControllerStep \/ BusStep)
    \/ ui_call # "idle" /\ CallbackStep
    \/ DispatchStep
    \/ Tick

SpecDispatch ==
    Init /\ [][NextDispatch]_vars /\ WF_vars(NextDispatch)

\* the bus gateway, and the controller that connects it when it starts
NextBus == ControllerStep \/ GatewayStep

SpecBus == Init /\ [][NextBus]_vars

\* the permit-join window and the clock
NextPermit == ControllerStep \/ BusStep \/ PermitStep

SpecPermit == Init /\ [][NextPermit]_vars

\* the permit-join window with a clock that keeps running and a loop that
\* runs every call_later callback that is due
SpecWindow ==
    /\ Init /\ [][NextPermit]_vars
    /\ WF_vars(Tick)
    /\ WF_vars(\E due \in timers : disable_permit_join(due))

TypeOK ==
    /\ now \in 0..MaxTime
    /\ app \in {"None", "running"}
    /\ app_devices \subseteq Ids
    /\ connected \in BOOLEAN
    /\ DOMAIN devices \subseteq Ids
    /\ DOMAIN device_states \subseteq Ids
    /\ states \in Addr \cup {0}
    /\ \A d \in DOMAIN device_states : device_states[d] \in Addr
    /\ lock \in Ids \cup {""}
    /\ ui_call \in UiCalls \cup {"idle"}
    /\ mqtt_connected \in BOOLEAN
    /\ subscribed \in BOOLEAN
    /\ mqtt_loop \in BOOLEAN
    /\ unguarded \subseteq {"self.devices.get", "zigbee_manager.devices.get"}

(***************************************************************************)
(* Properties                                                              *)
(***************************************************************************)

\* C1: in every reachable state a device id is a key of device_states if and
\* only if it is a key of devices.
C1_StateEntryIffDeviceEntry == DOMAIN device_states = DOMAIN devices

\* a known device was updated while its remove_device is suspended
C1_Witness ==
    \E d \in Ids :
       /\ remove_task[d] = "leaving"
       /\ d \in DOMAIN devices
       /\ d \in DOMAIN device_states
       /\ ret.op = "update_device_state"
       /\ ret.result = "True"

\* C2: while a remove_device of an id is in flight, every step, the join
\* event of that id and the completion of the removal included, leaves the id
\* in both maps or in neither.
C2_JoinRemoveAtomic ==
    [][\A d \in Ids :
          remove_task[d] = "leaving" =>
             ((d \in DOMAIN devices') <=> (d \in DOMAIN device_states'))]_vars

\* a join event of the device ran while its remove_device is suspended
C2_Witness ==
    \E d \in Ids :
       /\ remove_task[d] = "leaving"
       /\ ret.op = "device_joined"
       /\ published # <<>>
       /\ published[1].ieee_address = d
       /\ d \in DOMAIN devices
       /\ devices[d].status = "Joining"

\* validate_state_value, tabulated for the model ids a device can have and
\* the updates of the callers
ValidUpdate ==
    [model_id \in ModelIds, u \in Updates |->
       validate_state_value(model_id, u[1], u[2])]

\* C3: update_device_state on a known device returns True and stores the
\* value when validate_state_value accepts it; it returns False and leaves
\* the mapping get_device_state shows unchanged when it does not.
C3_UpdateStoresOrRejects ==
    [][ret'.op = "update_device_state" =>
          \A id \in DOMAIN devices, u \in Updates :
             \/ IF ValidUpdate[devices[id].model, u]
                THEN /\ ret'.result = "True"
                     /\ get_mapping_next(id)[u[1]] = u[2]
                ELSE /\ ret'.result = "False"
                     /\ get_mapping_next(id) = get_mapping(id)
             \/ ~update_effect(id, u[1], u[2])]_vars

\* an accepted update whose value get_device_state shows
C3_Witness ==
    /\ ret.op = "update_device_state"
    /\ ret.result = "True"
    /\ published # <<>>
    /\ published[1].ieee_address \in DOMAIN devices
    /\ get_mapping(published[1].ieee_address)[published[1].key]
          = published[1].value

\* C4: update_device_state on an id that is not in devices returns False,
\* changes neither map nor any stored dict and publishes nothing.
C4_UnknownDeviceNoEffect ==
    [][ret'.op = "update_device_state" =>
          \A id \in IdStrings, u \in Updates :
             (id \notin DOMAIN devices /\ update_effect(id, u[1], u[2]))
             => /\ ret'.result = "False"
                /\ UNCHANGED <<devices, device_states, heap>>
                /\ published' = <<>>]_vars

\* a rejected update after the device left, its remove_device still suspended
C4_Witness ==
    /\ ret.op = "update_device_state"
    /\ ret.result = "False"
    /\ DOMAIN devices = {}
    /\ \E d \in Ids : remove_task[d] = "leaving"

\* the type constraint of an exposed property, as the specification states it
Constraint(expose, value) ==
    \/ /\ expose.type = "binary"
       /\ value \in expose.values
    \/ /\ expose.type = "numeric"
       /\ ~FloatRaises(value)
       /\ expose.value_min # PyNone => float(value) >= expose.value_min.n
       /\ expose.value_max # PyNone => float(value) <= expose.value_max.n

\* after the step, the value stored for name satisfies the constraint of
\* the property of that name in the definition of the device
SatisfiesNext(d, name) ==
    /\ d \in DOMAIN devices'
    /\ devices'[d].definition # NoDef
    /\ \E j \in 1..Len(definitions[devices'[d].definition].exposes) :
          LET expose == definitions[devices'[d].definition].exposes[j] IN
          /\ expose.name = name
          /\ Constraint(expose, get_mapping_next(d)[name])

\* the step writes a value for name into the state dict of d
Written(d, name) ==
    /\ d \in DOMAIN device_states'
    /\ get_mapping_next(d)[name] # Absent
    /\ \/ d \notin DOMAIN device_states
       \/ get_mapping_next(d)[name] # get_mapping(d)[name]

\* C5 as claimed: every value written into the state map, the values written
\* at join included, satisfies the type constraint of its exposed property.
C5_EveryWriteValid ==
    [][heap' # heap =>
          \A d \in Ids, name \in Names :
             Written(d, name) => SatisfiesNext(d, name)]_vars

\* C5: every value written by update_device_state, directly or through an
\* attribute report, satisfies the type constraint of the exposed property
\* of that name in the owning device's definition; the values written when a
\* device joins are None.
C5_UpdateWritesValid ==
    [][heap' # heap =>
          \A d \in Ids, name \in Names :
             Written(d, name) =>
                IF ret'.op = "device_joined"
                THEN get_mapping_next(d)[name] = PyNone
                ELSE SatisfiesNext(d, name)]_vars

\* an update has stored a value over the None of the join
C5_Witness ==
    /\ ret.op \in {"update_device_state", "attribute_update"}
    /\ \E d \in DOMAIN device_states, name \in Names :
          get_mapping(d)[name] \notin {Absent, PyNone}

\* C6: the mapping a caller got from get_device_state is not changed by any
\* later operation.
C6_SnapshotUnchanged ==
    [][(states # 0 /\ states' = states /\ ret'.op # "get_device_state")
          => heap'[states] = heap[states]]_vars

\* C7: after a join event the device is in devices with status Joining; when
\* its model has a loaded definition the state dict holds exactly the exposed
\* names of that definition, each mapped to None; when no definition was
\* identified the state dict is empty.
C7_JoinInitialisesState ==
    [][ret'.op = "device_joined" =>
          \A d \in Ids, j \in Joiners :
             handle_device_joined(d, j[1], j[2]) =>
                /\ d \in DOMAIN devices'
                /\ devices'[d].status = "Joining"
                /\ d \in DOMAIN device_states'
                /\ definitions_get(devices'[d].model) # NoDef =>
                      LET ex == definitions[definitions_get(devices'[d].model)]
                                   .exposes IN
                      /\ Keys(get_mapping_next(d))
                            = {ex[i].name : i \in 1..Len(ex)}
                      /\ \A name \in Keys(get_mapping_next(d)) :
                            get_mapping_next(d)[name] = PyNone
                /\ devices'[d].definition = NoDef =>
                      Keys(get_mapping_next(d)) = {}]_vars

\* a device of the sample model has just joined
C7_Witness ==
    /\ ret.op = "device_joined"
    /\ \E d \in DOMAIN devices :
          /\ devices[d].model = "TS0001"
          /\ devices[d].status = "Joining"
          /\ Keys(get_mapping(d)) = {"state", "brightness"}
          /\ get_mapping(d)["state"] = PyNone

\* C8: a start() whose radio-stack initialisation failed has returned False
\* and left the controller disconnected.
C8_FailedStartReturnsFalse ==
    (ret.op = "start" /\ ret.fault # "")
       => (ret.result = "False" /\ ~connected)

\* C9: is_permit_join_active() queried right after a successful permit_join
\* returns True, and queried at any time later than the end-time of the most
\* recent successful permit_join it returns False, whether or not the
\* deferred close has run.
C9_WindowOpensAndExpires ==
    [][ret'.op = "is_permit_join_active" =>
          /\ (ret.op = "permit_join" /\ ret.result = "True")
                => ret'.result = "True"
          /\ now > permit_join_end_time => ret'.result = "False"]_vars

\* the query found the window expired while its deferred close is pending
C9_Witness ==
    /\ ret.op = "is_permit_join_active"
    /\ ret.result = "False"
    /\ now > permit_join_end_time
    /\ permit_join_end_time \in timers

\* C10: at every clock reading other than the end-time itself,
\* is_permit_join_active() returns True exactly when now < end-time,
\* whatever deferred close callbacks have run.
C10_QueryConsistentWithEndTime ==
    [][(ret'.op = "is_permit_join_active" /\ now # permit_join_end_time)
          => (ret'.result = "True" <=> now < permit_join_end_time)]_vars

\* C11: permit_join called while the controller is not connected returns
\* False, issues no radio command, leaves the active flag, the end-time and
\* the pending deferred closes unchanged and publishes nothing.
C11_PermitJoinNeedsConnected ==
    [][(ret'.op = "permit_join" /\ ~connected) =>
          /\ ret'.result = "False"
          /\ radio' = <<>>
          /\ published' = <<>>
          /\ UNCHANGED <<permit_join_active, permit_join_end_time, timers>>]_vars

\* permit_join was refused while the radio stack runs, the bus is connected
\* and an earlier window is still open
C11_Witness ==
    /\ ret.op = "permit_join"
    /\ ret.result = "False"
    /\ ret.fault = ""
    /\ ~connected
    /\ app = "running"
    /\ mqtt_connected
    /\ permit_join_active
    /\ timers # {}

\* the device_removed notification of an id
removed_message(d) == Message("zigbee2mqtt/bridge/event/device_removed", d)

\* the step starts a remove_device of d, and the step completes one
RemoveStarts(d) == remove_task[d] = "idle" /\ remove_task'[d] = "leaving"

RemoveCompletes(d) == remove_task[d] = "leaving" /\ remove_task'[d] = "idle"

C13_RemoveUnknownRefused ==
    [][ret'.op = "remove_device" =>
          \A id \in IdStrings :
             (EUI64_convert(id) \notin DOMAIN devices /\ remove_device(id))
             => /\ ret'.result = "False"
                /\ radio' = <<>>
                /\ published' = <<>>
                /\ UNCHANGED <<devices, device_states, heap>>]_vars

\* C14: a leave event for a device that is in devices deletes its device
\* entry and its state entry in one step and hands one device_leave
\* notification to the bus; get_device_state of the id then shows the empty
\* mapping.
C14_LeaveDeletesBoth ==
    [][ret'.op = "device_leave" =>
          \A d \in Ids :
             (/\ d \in DOMAIN devices
              /\ \E forgotten \in BOOLEAN : handle_device_leave(d, forgotten))
             => /\ d \notin DOMAIN devices'
                /\ d \notin DOMAIN device_states'
                /\ published' = publish(<<
                      Message("zigbee2mqtt/bridge/event/device_leave", d)>>)
                /\ get_mapping_next(d) = EmptyDict]_vars

\* a known device has left: the notification went out and the id is in
\* neither map
C14_Witness ==
    /\ ret.op = "device_leave"
    /\ Len(published) = 1
    /\ published[1].topic = "zigbee2mqtt/bridge/event/device_leave"
    /\ published[1].ieee_address \notin DOMAIN devices
    /\ published[1].ieee_address \notin DOMAIN device_states
    /\ get_mapping(published[1].ieee_address) = EmptyDict

\* C15: an exception raised while a join, leave, announce or attribute
\* handler handles an event does not leave the handler, and the entries of
\* the devices in both maps are unchanged.
C15_HandlerExceptionsCaught ==
    [][(ret'.op \in EventHandlers /\ ret'.fault # "") =>
          /\ ret'.result # "raise"
          /\ UNCHANGED <<devices, device_states, heap>>]_vars

\* C16: no step reads or writes devices or device_states outside a
\* with self.lock block.
C16_EveryAccessLocked == unguarded = {}

\* C17: the lock is free in every state in which a coroutine is suspended in
\* a radio-stack call, and in every state that follows a step that called
\* the radio stack.
C17_LockFreeWhileAwaiting ==
    (radio # <<>> \/ \E d \in Ids : remove_task[d] = "leaving") => lock = ""

\* a leave handler took the lock and ran while a remove_device is suspended
\* in device.leave()
C17_Witness ==
    /\ \E d \in Ids : remove_task[d] = "leaving"
    /\ ret.op = "device_leave"
    /\ published # <<>>
    /\ lock = ""

\* C18: a call the UI has dispatched onto the controller's loop comes back
\* to the UI thread, with the result or with a timeout.
C18_DispatchReturns == (ui_call # "idle") ~> (ui_call = "idle")

\* the report <<cluster, attribute, value>> is for the exposed property
Feeds(report, expose) ==
    expose.cluster = report[1] /\ expose.attribute = report[2]

\* the device is in devices with a definition one of whose properties the
\* report is for
Mapped(d, report) ==
    /\ d \in DOMAIN devices
    /\ devices[d].definition # NoDef
    /\ \E j \in 1..Len(definitions[devices[d].definition].exposes) :
          Feeds(report, definitions[devices[d].definition].exposes[j])

\* the name of the first property in list order the report is for
MappedName(d, report) ==
    LET ex == definitions[devices[d].definition].exposes IN
    ex[CHOOSE j \in 1..Len(ex) :
          /\ Feeds(report, ex[j])
          /\ \A i \in 1..(j - 1) : ~Feeds(report, ex[i])].name

\* the raw attribute message of a report
AttributeMessage(d, report) ==
    [Message("zigbee2mqtt/<id>/attribute", d)
       EXCEPT !.model = devices[d].model,
              !.manufacturer = devices[d].manufacturer,
              !.cluster = report[1], !.attribute = report[2],
              !.value = report[3]]

C20_UnmappedReportIgnored ==
    [][ret'.op = "attribute_update" =>
          \A d \in Ids, r \in Reports :
             (~Mapped(d, r) /\ handle_attribute_update(d, r[1], r[2], r[3]))
             => /\ UNCHANGED <<devices, device_states, heap>>
                /\ published' = <<>>]_vars

\* a report was ignored although the bus is connected and every device has
\* a definition with mapped attributes
C20_Witness ==
    /\ ret.op = "attribute_update"
    /\ ret.fault = ""
    /\ mqtt_connected
    /\ published = <<>>
    /\ \A d \in Ids : d \in DOMAIN devices /\ devices[d].model = "ZB-T1"

\* C21: a value that fails validation changes no stored state and nothing is
\* published for it, whether it comes through update_device_state or through
\* an attribute report.
C21_InvalidValueNoSideEffect ==
    [][ret'.op \in {"update_device_state", "attribute_update"} =>
          /\ \A id \in IdStrings, u \in Updates :
                (/\ id \in DOMAIN devices
                 /\ ~validate_state_value(devices[id].model, u[1], u[2])
                 /\ update_effect(id, u[1], u[2]))
                => /\ UNCHANGED <<devices, device_states, heap>>
                   /\ published' = <<>>
          /\ \A d \in Ids, r \in Reports :
                (/\ Mapped(d, r)
                 /\ ~validate_state_value(devices[d].model, MappedName(d, r),
                                          r[3])
                 /\ handle_attribute_update(d, r[1], r[2], r[3]))
                => /\ UNCHANGED <<devices, device_states, heap>>
                   /\ published' = <<>>]_vars

\* C22: an announce event for a device in devices sets its status to Online,
\* changes nothing else of the two maps and hands one device_announce
\* notification to the bus; for an id that is not in devices it changes
\* neither map and publishes nothing.
C22_AnnounceSetsOnline ==
    [][ret'.op = "device_announce" =>
          \A d \in Ids :
             handle_device_announce(d) =>
                IF d \in DOMAIN devices
                THEN /\ d \in DOMAIN devices'
                     /\ devices'[d].status = "Online"
                     /\ \A e \in Ids \ {d} :
                           /\ e \in DOMAIN devices' <=> e \in DOMAIN devices
                           /\ e \in DOMAIN devices => devices'[e] = devices[e]
                     /\ devices'[d].model = devices[d].model
                     /\ UNCHANGED <<device_states, heap>>
                     /\ published' = publish(<<
                           [Message("zigbee2mqtt/bridge/event/device_announce",
                                    d)
                              EXCEPT !.key = "status",
                                     !.value = S("online")]>>)
                ELSE /\ UNCHANGED <<devices, device_states, heap>>
                     /\ published' = <<>>]_vars

\* a joined device has announced itself: it is Online and the notification
\* went out
C22_Witness ==
    /\ ret.op = "device_announce"
    /\ Len(published) = 1
    /\ published[1].topic = "zigbee2mqtt/bridge/event/device_announce"
    /\ published[1].ieee_address \in DOMAIN devices
    /\ devices[published[1].ieee_address].status = "Online"

\* C23: an attribute report or an attribute_updated message from a device
\* that is in devices leaves the device with status Online.
C23_AttributeActivitySetsOnline ==
    [][(ret'.op \in {"attribute_update", "attribute_updated"}
          /\ ret'.fault = "") =>
          \A d \in Ids :
             (/\ d \in DOMAIN devices
              /\ \/ \E r \in Reports :
                       handle_attribute_update(d, r[1], r[2], r[3])
                 \/ \E value \in Values :
                       handle_attribute_updated(d, "measured", value))
             => devices'[d].status = "Online"]_vars

C24_PublishWhileDisconnected ==
    [][(ret'.op = "mqtt_publish" /\ ~mqtt_connected) =>
          /\ ret'.result = "False"
          /\ net' = <<>>
          /\ published' = <<>>
          /\ UNCHANGED bus_vars]_vars

\* a publish() refused after an unexpected disconnection: the loop thread
\* still runs and the flag is false
C24_Witness ==
    /\ ret.op = "mqtt_publish"
    /\ ret.result = "False"
    /\ ret.fault = ""
    /\ ~mqtt_connected
    /\ mqtt_loop
    /\ net = <<>>


\* C25: a connect() that fails on the configuration (empty broker host, port
\* outside 1024..65535) has made no network call of any kind, whatever the
\* state the gateway was in.
C25_InvalidConfigNoNetworkCall ==
    [][(ret'.op = "mqtt_connect" /\ ret'.fault = "config") =>
          /\ net' = <<>>
          /\ ~mqtt_connected']_vars

\* the exception types a failure of connect() may have
ErrorTypes == {"", "ValueError: ", "TimeoutError: ", "ConnectionError: ",
               "OSError: "}

\* the failure carries the reason
Carries(result, reason) == \E type \in ErrorTypes : result = type \o reason

\* C26: a connect() whose flag did not become true in time has stopped the
\* network loop, leaves the flag false and raises the timeout error, which
\* no resolution failure and no rejection by the broker raises; a connect()
\* to an unresolvable host raises the resolution error and has opened no
\* connection.
C26_TimeoutDistinct ==
    [][ret'.op = "mqtt_connect" =>
          /\ ret'.fault = "silent" =>
                /\ ret'.result = timeout_error
                /\ net'[Len(net')] = "loop_stop"
                /\ ~mqtt_loop'
                /\ ~mqtt_connected'
          /\ ret'.fault = "resolve" =>
                /\ ret'.result = "ValueError: Failed to resolve broker hostname"
                /\ \A i \in 1..Len(net') : net'[i] \notin {"connect", "loop_start"}
                /\ ~mqtt_connected'
          /\ ret'.fault \in {"resolve"} \cup DOMAIN error_messages =>
                ret'.result # timeout_error]_vars

\* C27: a connect() the broker rejected with a non-zero result code fails
\* with the reason mapped from that code, and the flag stays false.
C27_RejectionReasonReported ==
    [][(ret'.op = "mqtt_connect" /\ ret'.fault \in DOMAIN error_messages) =>
          /\ Carries(ret'.result, error_messages[ret'.fault])
          /\ ~mqtt_connected']_vars


\* C28: the connected flag is never true in a session for which no
\* subscription to the topic tree was requested: every step that sets the
\* flag, the acknowledgement of a connect() or of a reconnection, ends with
\* the subscription.
C28_ConnectedImpliesSubscribed ==
    /\ [](mqtt_connected => subscribed)
    /\ [][(mqtt_connected'
             /\ (~mqtt_connected \/ ret'.op \in {"mqtt_connect", "on_connect"})) =>
              /\ subscribed'
              /\ net' # <<>>
              /\ net'[Len(net')] = "subscribe"]_vars

\* the flag set by the acknowledgement of a reconnection
C28_Witness ==
    /\ ret.op = "on_connect"
    /\ mqtt_connected
    /\ subscribed
    /\ net = <<"subscribe">>

\* C29: disconnect() stops the network loop, then closes the session, leaves
\* the flag false and raises nothing; called on a gateway that is not
\* connected and has no loop running (after a disconnect(), or before any
\* connect()) it leaves the state as it was.
C29_DisconnectIdempotent ==
    [][ret'.op = "mqtt_disconnect" =>
          /\ net' = <<"loop_stop", "disconnect">>
          /\ ret'.result = "None"
          /\ ~mqtt_connected'
          /\ ~mqtt_loop'
          /\ published' = <<>>
          /\ (ret.op \in {"mqtt_disconnect", "init"} => UNCHANGED bus_vars)]_vars

\* a disconnect() of a connected gateway is behind
C29_Witness ==
    /\ ret.op = "mqtt_disconnect"
    /\ ret.result = "None"
    /\ net = <<"loop_stop", "disconnect">>
    /\ ~mqtt_connected
    /\ ~mqtt_loop
    /\ ~subscribed


(***************************************************************************)
(* DeviceConverters                                                        *)
(***************************************************************************)
\* the definitions of a model id, and of a vendor whatever the case
WithModelId(model_id) == {i \in DefIdx : definitions[i].model_id = model_id}

OfVendor(manufacturer) ==
    {i \in DefIdx : /\ manufacturer # ""
                    /\ lower(definitions[i].vendor) = lower(manufacturer)}

First(indexes) == CHOOSE i \in indexes : \A j \in indexes : i <= j

\* C31: identify_device returns the definition of the model id when one is
\* loaded, whatever the manufacturer; else the first definition whose
\* vendor equals the manufacturer whatever the case; else None.
C31_IdentifyDevice ==
    ret.op = "identify_device" =>
       LET model_id == ret.args[1]
           manufacturer == ret.args[2] IN
       IF WithModelId(model_id) # {}
       THEN ret.result = model_id
       ELSE IF OfVendor(manufacturer) # {}
       THEN ret.result = definitions[First(OfVendor(manufacturer))].model_id
       ELSE ret.result = "None"

\* the fallback chose the first of two definitions of the vendor
C31_Witness ==
    /\ ret.op = "identify_device"
    /\ ret.args = <<"unknown", "TUYA">>
    /\ Cardinality(OfVendor("TUYA")) = 2
    /\ ret.result = "TS0001"


\* C32: validate_state_value accepts a value exactly when the model id is
\* loaded, its definition exposes the state name, and the value satisfies
\* the type constraint of that property: a listed literal for a binary
\* property, a parsable number within the bounds present for a numeric one;
\* a property of any other type accepts nothing.
C32_ValidateStateValue ==
    ret.op = "validate_state_value" =>
       LET model_id == ret.args[1]
           state_name == ret.args[2]
           value == ret.args[3] IN
       ret.result = "True" <=>
          \E i \in WithModelId(model_id) :
             \E j \in 1..Len(definitions[i].exposes) :
                /\ definitions[i].exposes[j].name = state_name
                /\ Constraint(definitions[i].exposes[j], value)

\* a value on the upper bound is accepted
C32_Witness ==
    /\ ret.op = "validate_state_value"
    /\ ret.args = <<"TS0001", "brightness", S("254")>>
    /\ ret.result = "True"


(***************************************************************************)
(* The permit-join window, again                                           *)
(***************************************************************************)

\* C33: there is one window, and it lasts until the newest end-time: no
\* step deactivates the window while the clock is before the end-time of
\* the most recent successful permit_join, the deferred close of an earlier
\* call included.
C33_WindowLastsUntilNewestEnd ==
    [][(permit_join_active /\ now < permit_join_end_time)
          => permit_join_active']_vars

(***************************************************************************)
(* The status of a device                                                  *)
(***************************************************************************)
\* the property names of device d that hold a stored value
Valued(mapping) == {name \in Names : mapping[name] \notin {Absent, PyNone}}

\* C34: while an id stays in devices its status never goes from Online back
\* to Joining and the state values stored for it are not reset, a second
\* join event for the id included.
C34_StatusOnlyForward ==
    [][\A d \in DOMAIN devices \cap DOMAIN devices' :
          /\ devices[d].status = "Online" => devices'[d].status # "Joining"
          /\ Valued(get_mapping(d)) \subseteq Valued(get_mapping_next(d))]_vars

(***************************************************************************)
(* The close of the permit-join window                                     *)
(***************************************************************************)
permit_join_topic == "zigbee2mqtt/bridge/request/permit_join"

\* the step handed the notification with this value to the bus
Notified(value) ==
    \E i \in 1..Len(published) :
       /\ published[i].topic = permit_join_topic
       /\ published[i].value = B(value)

\* a successful permit_join has published the window-opened notification,
\* for a window that ends within the hours the clock runs
WindowOpened ==
    /\ ret.op = "permit_join"
    /\ Notified(TRUE)
    /\ permit_join_end_time <= MaxTime

\* the radio stack was asked to close the window and the window-closed
\* notification went out
WindowClosed ==
    /\ \E i \in 1..Len(radio) : radio[i] = RadioCall("permit", "", 0)
    /\ Notified(FALSE)

\* C35: while the bus stays connected, every window-opened notification is
\* eventually followed by a permit(0) request to the radio stack and a
\* window-closed notification.
C35_WindowEventuallyClosed ==
    [](WindowOpened => <>(WindowClosed \/ ~mqtt_connected))

C37_LeaveFailureKeepsDevice ==
    [][ret'.op = "remove_device" =>
          \A d \in Ids :
             \/ /\ ret'.result = "False"
                /\ UNCHANGED <<devices, device_states, heap, app_devices>>
                /\ published' = <<>>
                /\ net' = <<>>
                /\ UNCHANGED <<app, connected>>
                /\ lock' = ""
                /\ remove_task'[d] = "idle"
             \/ ~remove_device_resume(d, FALSE)]_vars

\* the leave of a device that is in both maps has failed, the bus connected:
\* the device is still in both maps and in the radio stack's table
C37_Witness ==
    /\ ret.op = "remove_device"
    /\ ret.result = "False"
    /\ ret.fault = "radio_error"
    /\ mqtt_connected
    /\ \E d \in Ids :
          /\ d \in DOMAIN devices
          /\ d \in DOMAIN device_states
          /\ d \in app_devices
          /\ remove_task[d] = "idle"

(***************************************************************************)
(* The definition of a device, at join and at update                       *)
(***************************************************************************)
\* the definition selected for device d when it joined allows value for the
\* property called name
JoinDefinitionAllows(d, name, value) ==
    /\ devices[d].definition # NoDef
    /\ \E j \in 1..Len(definitions[devices[d].definition].exposes) :
          LET expose == definitions[devices[d].definition].exposes[j] IN
          /\ expose.name = name
          /\ \A h \in 1..(j - 1) :
                definitions[devices[d].definition].exposes[h].name # name
          /\ Constraint(expose, value)

\* C38: update_device_state validates against the definition that was
\* selected for the device at join, a definition selected through the
\* manufacturer fallback included: a value that definition allows for one of
\* its properties is stored and the call returns True.
C38_UpdateUsesJoinDefinition ==
    [][ret'.op = "update_device_state" =>
          \A d \in DOMAIN devices, u \in Updates :
             \/ /\ ret'.result = "True"
                /\ get_mapping_next(d)[u[1]] = u[2]
             \/ ~JoinDefinitionAllows(d, u[1], u[2])
             \/ ~update_device_state(d, u[1], u[2])]_vars

(***************************************************************************)
(* State updates and the bus                                               *)
(***************************************************************************)
\* C39: update_device_state of a known device with a value that is valid for
\* the definition of its model id stores the value and returns True,
\* whether the bus delivers the state message, fails to send it or is not
\* connected.
C39_UpdateIndependentOfBus ==
    [][ret'.op = "update_device_state" =>
          \A d \in DOMAIN devices, u \in Updates :
             \/ ~ValidUpdate[devices[d].model, u]
             \/ /\ ret'.result = "True"
                /\ get_mapping_next(d)[u[1]] = u[2]
                /\ \/ ~mqtt_connected /\ published' = <<>> /\ net' = <<>>
                   \/ mqtt_connected /\ published' = <<>>
                         /\ net' = <<"publish">>
                   \/ mqtt_connected /\ Len(published') = 1
                         /\ net' = <<"publish">>
             \/ ~update_device_state(d, u[1], u[2])]_vars

\* the client library failed to send the state message of an update: the
\* call returned True and the value is stored
C39_Witness ==
    /\ ret.op = "update_device_state"
    /\ ret.result = "True"
    /\ mqtt_connected
    /\ published = <<>>
    /\ net = <<"publish">>
    /\ \E d \in DOMAIN devices, u \in Updates :
          get_mapping(d)[u[1]] = u[2]

====
